---- MODULE Spec2Model ----
(***************************************************************************)
(* Checkmarx -> Elasticsearch team membership sync (conflict-aware         *)
(* variant of the sync script, src/unnamed/part_000 lines 342-808).        *)
(*                                                                         *)
(* Strings that the code takes apart are sequences of atoms: a team's      *)
(* fullName is a sequence of characters with "/" as separator, a template  *)
(* string is a sequence of atoms in which "$TEAM" is the placeholder.      *)
(* JSON values are records [tag, str, keys, kids].                         *)
(***************************************************************************)
EXTENDS Integers, Sequences, FiniteSets, TLC

\* ------------------------------------------------------------------ bounds
\* longest team list the directory returns
MaxTeams == 3
\* longest username list handed to update_role_mapping by a direct caller
MaxUsernames == 2

\* ----------------------------------------------------------------- helpers
Last(s) == s[Len(s)]

Range(s) == {s[i] : i \in DOMAIN s}

RECURSIVE Concat(_)
\* ''.join(parts)
Concat(parts) ==
    IF parts = <<>> THEN <<>> ELSE Head(parts) \o Concat(Tail(parts))

RECURSIVE Split(_)
\* str.split('/'): the segments between separators, '' included
Split(s) ==
    IF s = <<>> THEN << <<>> >>
    ELSE LET rest == Split(Tail(s))
         IN  IF Head(s) = "/" THEN << <<>> >> \o rest
             ELSE << <<Head(s)>> \o Head(rest) >> \o Tail(rest)

\* full_team_name.split('/')[-1]
short_name(full_team_name) == Last(Split(full_team_name))

\* ------------------------------------------------------------- JSON values
JStr(s) == [tag |-> "str", str |-> s, keys |-> <<>>, kids |-> <<>>]
JNum == [tag |-> "num", str |-> <<>>, keys |-> <<>>, kids |-> <<>>]
JList(items) == [tag |-> "list", str |-> <<>>, keys |-> <<>>, kids |-> items]
JMap(ks, vs) == [tag |-> "map", str |-> <<>>, keys |-> ks, kids |-> vs]
\* no document stored under a name (GET answers 404)
Null == [tag |-> "null", str |-> <<>>, keys |-> <<>>, kids |-> <<>>]

\* key in obj
Has(obj, key) == \E i \in DOMAIN obj.keys : obj.keys[i] = key
\* obj[key]
Item(obj, key) == obj.kids[CHOOSE i \in DOMAIN obj.keys : obj.keys[i] = key]
\* obj.get(key, default)
Get(obj, key, default) == IF Has(obj, key) THEN Item(obj, key) ELSE default

TEAM == "$TEAM"

\* obj.replace("$TEAM", team_name) on a string
StrReplace(s, team_name) ==
    Concat([i \in DOMAIN s |-> IF s[i] = TEAM THEN team_name ELSE <<s[i]>>])

\* -------------------------------------------------- the directory (remote)
P(a, b) == <<"/", a, "/", b>>

\* the team records the directory can hold: two teams of different parents
\* named X, one named Y, and a second record carrying the path /A/X
TeamRecords ==
    { [id |-> 1, fullName |-> P("A", "X")],
      [id |-> 2, fullName |-> P("B", "X")],
      [id |-> 3, fullName |-> P("A", "Y")],
      [id |-> 4, fullName |-> P("A", "X")] }

\* the answers of GET /auth/teams: lists of records with distinct ids
TeamLists ==
    { t \in UNION { [1..n -> TeamRecords] : n \in 0..MaxTeams } :
        \A i, j \in DOMAIN t : i # j => t[i].id # t[j].id }

\* a key a user record does not carry
Absent == "<absent>"
UserRec(a, b) == [userName |-> a, username |-> b]

\* the bodies of GET /auth/teams/{id}/users
UserLists ==
    { <<>>,
      << UserRec("u1", Absent), UserRec(Absent, "u2"), UserRec("u1", Absent) >>,
      << UserRec(Absent, "u2"), UserRec("", Absent) >>,
      << UserRec("", "u2"), UserRec(Absent, Absent) >> }

\* what a member fetch meets: a body, HTTP 403, or another request error
Responses ==
    { [status |-> "ok", users |-> l] : l \in UserLists }
      \cup { [status |-> "denied", users |-> <<>>],
             [status |-> "error", users |-> <<>>] }

\* ------------------------------------------------------- CheckmarxClient
\* user.get('userName', user.get('username', ''))
Username(user) ==
    IF user.userName # Absent THEN user.userName
    ELSE IF user.username # Absent THEN user.username
    ELSE ""

\* faulty variant: a failed member fetch is re-raised, as get_teams does
GetUsersReraise(resp) ==
    IF resp.status = "ok"
    THEN [raised |-> FALSE, users |-> resp.users]
    ELSE [raised |-> TRUE, users |-> <<>>]

\* get_users_by_team: the body, or [] on any RequestException
get_users_by_team(resp) ==
    IF resp.status = "ok"
    THEN [raised |-> FALSE, users |-> resp.users]
    ELSE [raised |-> FALSE, users |-> <<>>]

\* team_name_mapping[short_name].append((full_team_name, team_id)) on an
\* insertion-ordered dict, kept as a sequence of [name, paths]
AppendPath(mapping, team) ==
    LET short == short_name(team.fullName)
        pair  == [fullName |-> team.fullName, id |-> team.id]
    IN  IF \E i \in DOMAIN mapping : mapping[i].name = short
        THEN [i \in DOMAIN mapping |->
                IF mapping[i].name = short
                THEN [mapping[i] EXCEPT !.paths = Append(@, pair)]
                ELSE mapping[i]]
        ELSE Append(mapping, [name |-> short, paths |-> <<pair>>])

RECURSIVE FirstPassFrom(_, _)
FirstPassFrom(mapping, ts) ==
    IF ts = <<>> THEN mapping
    ELSE FirstPassFrom(AppendPath(mapping, Head(ts)), Tail(ts))

\* first pass: short name -> list of (full name, id)
FirstPass(ts) == FirstPassFrom(<<>>, ts)

\* faulty variant: a name conflicts only when its records differ in full path
ConflictsOfDistinctPaths(mapping) ==
    SelectSeq(mapping, LAMBDA e :
        \E a, b \in DOMAIN e.paths : e.paths[a].fullName # e.paths[b].fullName)

\* {name: paths for name, paths in team_name_mapping.items() if len(paths) > 1}
DetectConflicts(mapping) == SelectSeq(mapping, LAMBDA e : Len(e.paths) > 1)

\* faulty variant: the first path of a conflict wins the role name
ConflictingKeepFirst(cs) ==
    UNION { { cs[i].paths[j].fullName : j \in DOMAIN cs[i].paths \ {1} } : i \in DOMAIN cs }

\* conflicting_full_names after the report loop
ConflictingFullNames(cs) ==
    UNION { { cs[i].paths[j].fullName : j \in DOMAIN cs[i].paths } : i \in DOMAIN cs }

Line(kind, role, path) == [kind |-> kind, role |-> role, path |-> path]

\* faulty variant: only the first path of a conflict is listed
ConflictEntryFirstOnly(c) ==
    << Line("role", c.name, <<>>), Line("path", <<>>, c.paths[1].fullName) >>

\* the lines written for one conflicting role name
ConflictEntry(c) ==
    << Line("role", c.name, <<>>) >>
      \o [j \in DOMAIN c.paths |-> Line("path", <<>>, c.paths[j].fullName)]

\* the messages log_error_to_file receives, in order; none without conflicts
ConflictReport(cs) ==
    IF cs = <<>> THEN <<>>
    ELSE << Line("sep", <<>>, <<>>), Line("header", <<>>, <<>>), Line("sep", <<>>, <<>>) >>
           \o Concat([i \in DOMAIN cs |-> ConflictEntry(cs[i])])
           \o << Line("skipped", <<>>, <<>>), Line("hint1", <<>>, <<>>),
                 Line("hint2", <<>>, <<>>), Line("sep", <<>>, <<>>) >>

\* faulty variant: the file is opened with 'w', each message replaces the file
LogOverwrites(file, messages) ==
    IF messages = <<>> THEN file ELSE <<Last(messages)>>

\* open(ERROR_LOG_FILE, 'a'): each message goes after what the file holds
log_error_to_file(file, messages) == file \o messages

\* memberships[short_name].add(username) on a defaultdict(set), kept as an
\* insertion-ordered sequence of [name, users]
AddUser(ms, short, username) ==
    IF \E i \in DOMAIN ms : ms[i].name = short
    THEN [i \in DOMAIN ms |->
            IF ms[i].name = short
            THEN [ms[i] EXCEPT !.users = @ \cup {username}]
            ELSE ms[i]]
    ELSE Append(ms, [name |-> short, users |-> {username}])

RECURSIVE AddUsersUnchecked(_, _, _)
\* faulty variant: the `if username:` test is missing
AddUsersUnchecked(ms, short, users) ==
    IF users = <<>> THEN ms
    ELSE AddUsersUnchecked(AddUser(ms, short, Username(Head(users))),
                           short, Tail(users))

RECURSIVE AddUsers(_, _, _)
\* the loop over a team's users: blank usernames are passed over
AddUsers(ms, short, users) ==
    IF users = <<>> THEN ms
    ELSE LET username == Username(Head(users))
         IN  AddUsers(IF username # "" THEN AddUser(ms, short, username) ELSE ms,
                      short, Tail(users))

Keys(ms) == {ms[i].name : i \in DOMAIN ms}
Lookup(ms, name) == (CHOOSE i \in DOMAIN ms : ms[i].name = name)

\* ---------------------------------------------------- ElasticsearchClient
sX == <<"X">>
sY == <<"Y">>
\* the role names the role store is watched for
RoleNames == {sX, sY}

S(a) == JStr(<<a>>)

\* ROLE_CONFIG, the module's role template
ROLE_CONFIG ==
    JMap(<<"cluster", "indices", "applications">>,
         << JList(<<>>),
            JList(<< JMap(<<"names", "privileges", "query">>,
                          << JList(<<S("issues*"), S("scans*"), S("assets*")>>),
                             JList(<<S("read"), S("read_cross_cluster")>>),
                             JMap(<<"term">>,
                                  << JMap(<<"saltminer.asset.attribute.team">>,
                                          << S(TEAM) >>) >>) >>) >>),
            JList(<< JMap(<<"application", "privileges", "resources">>,
                          << S("kibana-.kibana"), JList(<<S("read")>>),
                             JList(<<S("*")>>) >>) >>) >>)

\* no mapping stored under a role name
NoMapping == [exists |-> FALSE, enabled |-> FALSE, roles |-> <<>>, any |-> <<>>]

\* faulty variant: the rule list stops after the first username
MappingBodyFirstOnly(role_name, usernames, enabled) ==
    [exists  |-> TRUE,
     enabled |-> enabled,
     roles   |-> <<role_name>>,
     any     |-> [n \in DOMAIN usernames \cap {1} |->
                    [field |-> "username", value |-> usernames[n]]]]

\* the request body of update_role_mapping
MappingBody(role_name, usernames, enabled) ==
    [exists  |-> TRUE,
     enabled |-> enabled,
     roles   |-> <<role_name>>,
     any     |-> [n \in DOMAIN usernames |->
                    [field |-> "username", value |-> usernames[n]]]]

\* faulty variant: the new rules are added to the rules already stored
UpdateAppends(mappings, role_name, usernames, enabled, putOut) ==
    IF putOut = "ok"
    THEN [mappings |-> [mappings EXCEPT
                          ![role_name] =
                              [exists  |-> TRUE,
                               enabled |-> enabled,
                               roles   |-> <<role_name>>,
                               any     |-> @.any \o
                                   [n \in DOMAIN usernames |->
                                      [field |-> "username", value |-> usernames[n]]]]],
          ret |-> TRUE, raised |-> FALSE]
    ELSE [mappings |-> mappings, ret |-> FALSE, raised |-> FALSE]

\* faulty variant: a failed PUT is re-raised instead of answered with False
UpdateReraises(mappings, role_name, usernames, enabled, putOut) ==
    IF putOut = "ok"
    THEN [mappings |-> [mappings EXCEPT
                          ![role_name] =
                              [exists  |-> TRUE,
                               enabled |-> enabled,
                               roles   |-> <<role_name>>,
                               any     |-> [n \in DOMAIN usernames |->
                                      [field |-> "username", value |-> usernames[n]]]]],
          ret |-> TRUE, raised |-> FALSE]
    ELSE [mappings |-> mappings, ret |-> FALSE, raised |-> TRUE]

\* update_role_mapping against the mapping store: PUT replaces the document;
\* a RequestException is caught and answered with False
update_role_mapping(mappings, role_name, usernames, enabled, putOut) ==
    IF putOut = "ok"
    THEN [mappings |-> [mappings EXCEPT
                          ![role_name] = MappingBody(role_name, usernames, enabled)],
          ret |-> TRUE, raised |-> FALSE]
    ELSE [mappings |-> mappings, ret |-> FALSE, raised |-> FALSE]

RECURSIVE ReplaceWholeStringsOnly(_, _)
\* faulty variant: only a string that is the placeholder and nothing else is rewritten
ReplaceWholeStringsOnly(obj, team_name) ==
    IF obj.tag \in {"map", "list"}
    THEN [obj EXCEPT !.kids =
            [n \in DOMAIN obj.kids |-> ReplaceWholeStringsOnly(obj.kids[n], team_name)]]
    ELSE IF obj.tag = "str" /\ obj.str = <<TEAM>>
    THEN JStr(team_name)
    ELSE obj

RECURSIVE replace_team_placeholder(_, _)
\* _replace_team_placeholder: dict values and list items are walked, a string
\* holding the placeholder is rewritten, anything else is returned as it is
replace_team_placeholder(obj, team_name) ==
    IF obj.tag \in {"map", "list"}
    THEN [obj EXCEPT !.kids =
            [n \in DOMAIN obj.kids |-> replace_team_placeholder(obj.kids[n], team_name)]]
    ELSE IF obj.tag = "str" /\ TEAM \in Range(obj.str)
    THEN JStr(StrReplace(obj.str, team_name))
    ELSE obj

\* one idx_def of the role definition
IndexDef(idx_config, role_name) ==
    IF Has(idx_config, "query")
    THEN JMap(<<"names", "privileges", "query">>,
              << Item(idx_config, "names"), Item(idx_config, "privileges"),
                 replace_team_placeholder(Item(idx_config, "query"), role_name) >>)
    ELSE JMap(<<"names", "privileges">>,
              << Item(idx_config, "names"), Item(idx_config, "privileges") >>)

\* role_def as create_role_if_not_exists builds it from the template
RoleDef(config, role_name) ==
    LET indices == Get(config, "indices", JList(<<>>)).kids
        apps    == Get(config, "applications", JList(<<>>)).kids
    IN  JMap(<<"cluster", "indices", "applications">>,
             << Get(config, "cluster", JList(<<>>)),
                JList([n \in DOMAIN indices |-> IndexDef(indices[n], role_name)]),
                JList([n \in DOMAIN apps |-> apps[n]]) >>)

\* what GET /_security/role/{name} can answer: 200 for a stored role, 404
\* for none, and at any time another status or a failed request
GetOutcomes(roles, role_name) ==
    (IF roles[role_name] # Null THEN {"200"} ELSE {"404"}) \cup {"500", "exception"}

\* what a PUT can meet: success, HTTP 401 (the credentials are rejected), or
\* another request error
PutOutcomes == {"ok", "unauthorized", "error"}

\* faulty variant: a failed PUT of the role definition is re-raised
CreateReraises(roles, config, role_name, getOut, putOut) ==
    IF getOut = "200"
    THEN [roles |-> roles, ret |-> TRUE, raised |-> FALSE, calls |-> <<"getRole">>]
    ELSE IF putOut = "ok"
    THEN [roles |-> [roles EXCEPT ![role_name] = RoleDef(config, role_name)],
          ret |-> TRUE, raised |-> FALSE, calls |-> <<"getRole", "putRole">>]
    ELSE [roles |-> roles, ret |-> FALSE, raised |-> TRUE,
          calls |-> <<"getRole", "putRole">>]

\* create_role_if_not_exists: only a 200 of the existence check returns
\* early; any other outcome goes on to PUT the built definition
create_role_if_not_exists(roles, config, role_name, getOut, putOut) ==
    IF getOut = "200"
    THEN [roles |-> roles, ret |-> TRUE, raised |-> FALSE, calls |-> <<"getRole">>]
    ELSE IF putOut = "ok"
    THEN [roles |-> [roles EXCEPT ![role_name] = RoleDef(config, role_name)],
          ret |-> TRUE, raised |-> FALSE, calls |-> <<"getRole", "putRole">>]
    ELSE [roles |-> roles, ret |-> FALSE, raised |-> FALSE,
          calls |-> <<"getRole", "putRole">>]

\* -------------------------------------------------------------- the script
\* faulty variant: a filter entry also selects the role named by its last segment
FilterByLastSegment(ms, team_filter) ==
    IF team_filter # <<>>
    THEN SelectSeq(ms, LAMBDA e :
             \E n \in DOMAIN team_filter :
                 e.name = team_filter[n] \/ e.name = short_name(team_filter[n]))
    ELSE ms

\* {k: v for k, v in memberships.items() if k in team_filter}, when a filter
\* is given (None and [] both mean no filter)
ApplyFilter(ms, team_filter) ==
    IF team_filter # <<>>
    THEN SelectSeq(ms, LAMBDA e : e.name \in Range(team_filter))
    ELSE ms

\* list(usernames): the elements of the set, once each, in some order
Orders(set) ==
    { o \in [1..Cardinality(set) -> set] : Range(o) = set }

\* --teams values: none, a short name, a short name with a full path
TeamFilters == { <<>>, <<sX>>, <<sY, P("A", "X")>> }

\* a role definition that was in the store before the run
ExistingRole == JMap(<<"cluster">>, << JList(<<S("all")>>) >>)
\* a mapping that was in the store before the run
StaleMapping == MappingBody(sX, <<"u9">>, TRUE)
\* a line an earlier run left in the error log
OldLine == Line("old", <<>>, <<>>)

\* ------------------------- sonatypeIQVersionCheckerv2: Config.__init__
\* Strings are sequences of atoms here too: "" is <<>>, and a value that is
\* not there (None of argparse, an unset environment variable) is a
\* one-atom sequence of its own.
None == <<"<None>">>
\* args.smtp_port when --smtp-port is not given
NoPort == -1

\* str.lower() on the letters the flag texts use
LowerChar(c) ==
    CASE c = "T" -> "t"
      [] c = "R" -> "r"
      [] c = "U" -> "u"
      [] c = "E" -> "e"
      [] OTHER   -> c

lower(str) == [n \in DOMAIN str |-> LowerChar(str[n])]

Digits == <<"0", "1", "2", "3", "4", "5", "6", "7", "8", "9">>

DigitValue(c) == (CHOOSE n \in DOMAIN Digits : Digits[n] = c) - 1

RECURSIVE IntFrom(_, _)
IntFrom(acc, str) ==
    IF str = <<>> THEN acc
    ELSE IntFrom(10 * acc + DigitValue(Head(str)), Tail(str))

\* int(text): the number the digits spell, ValueError for anything else
int(str) ==
    IF str # <<>> /\ \A n \in DOMAIN str : str[n] \in Range(Digits)
    THEN [raised |-> FALSE, n |-> IntFrom(0, str)]
    ELSE [raised |-> TRUE, n |-> 0]

\* os.getenv(name, default); os.getenv(name) is getenv(env, name, None)
getenv(env, name, default) ==
    IF env[name] = None THEN default ELSE env[name]

\* a or b on strings and None: a unless it is None or empty
StrOr(a, b) == IF a # None /\ a # <<>> THEN a ELSE b

\* the parsed command line without any option
NoArgs ==
    [smtp_server |-> None, smtp_port |-> NoPort, email_username |-> None,
     email_password |-> None, email_from |-> None, email_to |-> None,
     slack_webhook |-> None, version_file |-> None,
     enable_email |-> FALSE, disable_email |-> FALSE,
     enable_slack |-> FALSE, disable_slack |-> FALSE, dry_run |-> FALSE]

StrOptions ==
    {"smtp_server", "email_username", "email_password", "email_from", "email_to",
     "slack_webhook", "version_file"}

\* command lines: no option; one string option, empty or not; a port, 0 or
\* not; any choice of the five switches
CommandLines ==
    {NoArgs}
      \cup { [NoArgs EXCEPT ![o] = v] : o \in StrOptions, v \in {<<>>, <<"cli">>} }
      \cup { [NoArgs EXCEPT !.smtp_port = p] : p \in {0, 25} }
      \cup { [NoArgs EXCEPT !.enable_email = a, !.disable_slack = a,
                            !.disable_email = b, !.enable_slack = b,
                            !.dry_run = d] : a, b, d \in BOOLEAN }

\* os.environ with nothing of the script set
NoEnv ==
    [SMTP_SERVER |-> None, SMTP_PORT |-> None, EMAIL_USERNAME |-> None,
     EMAIL_PASSWORD |-> None, EMAIL_FROM |-> None, EMAIL_TO |-> None,
     SLACK_WEBHOOK_URL |-> None, VERSION_FILE |-> None,
     ENABLE_EMAIL |-> None, ENABLE_SLACK |-> None, DRY_RUN |-> None]

StrVariables ==
    {"SMTP_SERVER", "EMAIL_USERNAME", "EMAIL_PASSWORD", "EMAIL_FROM", "EMAIL_TO",
     "SLACK_WEBHOOK_URL", "VERSION_FILE"}

\* texts a flag variable can hold
FlagTexts == { None, <<"t", "r", "u", "e">>, <<"T", "r", "u", "e">>, <<"1">> }

\* os.environ after load_dotenv(): nothing set; one string variable, empty
\* or not; a port text, a number or not; any texts in the flag variables
Environments ==
    {NoEnv}
      \cup { [NoEnv EXCEPT ![e] = v] : e \in StrVariables, v \in {<<>>, <<"env">>} }
      \cup { [NoEnv EXCEPT !.SMTP_PORT = t] : t \in {<<"2", "5", "2", "5">>, <<"x">>} }
      \cup { [NoEnv EXCEPT !.ENABLE_EMAIL = f, !.ENABLE_SLACK = f, !.DRY_RUN = g] :
                f, g \in FlagTexts }

\* no Config object yet
NoConfig ==
    [raised |-> FALSE, smtp_server |-> None, smtp_port |-> NoPort,
     email_username |-> None, email_password |-> None, email_from |-> None,
     email_to |-> None, slack_webhook_url |-> None, version_file |-> None,
     enable_email |-> FALSE, enable_slack |-> FALSE, dry_run |-> FALSE]

\* Config.__init__(args), line by line; a ValueError of int() leaves no object
Config(a, env) ==
    LET port == IF a.smtp_port # NoPort /\ a.smtp_port # 0
                THEN [raised |-> FALSE, n |-> a.smtp_port]
                ELSE int(getenv(env, "SMTP_PORT", <<"5", "8", "7">>))
    IN  IF port.raised THEN [NoConfig EXCEPT !.raised = TRUE]
        ELSE
        [raised         |-> FALSE,
         smtp_server    |-> StrOr(a.smtp_server,
                                  getenv(env, "SMTP_SERVER", <<"smtp.office365.com">>)),
         smtp_port      |-> port.n,
         email_username |-> StrOr(a.email_username, getenv(env, "EMAIL_USERNAME", None)),
         email_password |-> StrOr(a.email_password, getenv(env, "EMAIL_PASSWORD", None)),
         email_from     |-> StrOr(a.email_from, getenv(env, "EMAIL_FROM", None)),
         email_to       |-> StrOr(a.email_to, getenv(env, "EMAIL_TO", None)),
         slack_webhook_url |-> StrOr(a.slack_webhook,
                                     getenv(env, "SLACK_WEBHOOK_URL", None)),
         version_file   |-> StrOr(a.version_file,
                                  getenv(env, "VERSION_FILE",
                                         <<"sonatype_last_version.txt">>)),
         enable_email   |-> IF a.enable_email THEN TRUE
                            ELSE IF a.disable_email THEN FALSE
                            ELSE lower(getenv(env, "ENABLE_EMAIL",
                                              <<"f", "a", "l", "s", "e">>))
                                   = <<"t", "r", "u", "e">>,
         enable_slack   |-> IF a.enable_slack THEN TRUE
                            ELSE IF a.disable_slack THEN FALSE
                            ELSE lower(getenv(env, "ENABLE_SLACK",
                                              <<"f", "a", "l", "s", "e">>))
                                   = <<"t", "r", "u", "e">>,
         dry_run        |-> \/ a.dry_run
                            \/ lower(getenv(env, "DRY_RUN", <<"f", "a", "l", "s", "e">>))
                                 = <<"t", "r", "u", "e">>]

\* ---------------------------- sonatypeIQVersionCheckerv2: the version check
MAX_RETRIES == 3
\* longest chain of runs of the version checker over one version file
MaxRuns == 2

\* a value that is there and not empty: `if not x` is false for it
Truthy(x) == x # None /\ x # <<>>

\* what startswith('https://hooks.slack.com/') looks for, as one atom
HooksPrefix == "https://hooks.slack.com/"

\* Config.validate: TRUE when the list of errors stays empty
validate(c) ==
    /\ c.enable_email =>
          /\ Truthy(c.email_username)
          /\ Truthy(c.email_password)
          /\ Truthy(c.email_from)
          /\ Truthy(c.email_to)
    /\ c.enable_slack =>
          /\ Truthy(c.slack_webhook_url)
          /\ Head(c.slack_webhook_url) = HooksPrefix
    /\ c.enable_email \/ c.enable_slack

RECURSIVE IntToStr(_)
\* str(n) for n >= 0
IntToStr(n) ==
    IF n < 10 THEN <<Digits[n + 1]>>
    ELSE IntToStr(n \div 10) \o <<Digits[(n % 10) + 1]>>

\* max(map(int, matches)) for a non-empty list of digit strings
MaxInt(matches) ==
    CHOOSE m \in {int(matches[n]).n : n \in DOMAIN matches} :
        \A n \in DOMAIN matches : int(matches[n]).n <= m

\* re.sub(r'[^\d.]', '', version)
sanitize_version(version) ==
    SelectSeq(version, LAMBDA c : c \in Range(Digits) \cup {"."})

\* faulty variant: the retry test lets one more attempt through
RetryOnceMore(retry_count) == retry_count <= MAX_RETRIES

\* if retry_count < MAX_RETRIES
ShouldRetry(retry_count) == retry_count < MAX_RETRIES

v190 == <<"1", "9", "0">>
v191 == <<"1", "9", "1">>

\* what re.findall(VERSION_PATTERN, response.text) gives on the pages served
Pages == { <<>>, <<v190>>, <<v190, v191>> }

\* what one requests.get of the release notes meets
FetchOutcomes ==
    { [status |-> "ok", matches |-> m] : m \in Pages }
      \cup { [status |-> st, matches |-> <<>>] : st \in {"timeout", "error", "unexpected"} }

\* one call of get_latest_version up to its return or its recursive call:
\* retry says the call calls itself with retry_count + 1, value is what it
\* returns otherwise
get_latest_version(retry_count, out) ==
    IF out.status = "ok"
    THEN [retry |-> FALSE,
          value |-> IF out.matches # <<>>
                    THEN sanitize_version(IntToStr(MaxInt(out.matches)))
                    ELSE None]
    ELSE IF out.status \in {"timeout", "error"}
    THEN [retry |-> ShouldRetry(retry_count), value |-> None]
    ELSE [retry |-> FALSE, value |-> None]

\* the version file is not there
NoFile == <<"<no file>">>

Whitespace == {" ", "\n"}

RECURSIVE StripLeft(_)
StripLeft(text) ==
    IF text # <<>> /\ Head(text) \in Whitespace THEN StripLeft(Tail(text)) ELSE text

RECURSIVE StripRight(_)
StripRight(text) ==
    IF text # <<>> /\ Last(text) \in Whitespace
    THEN StripRight(SubSeq(text, 1, Len(text) - 1))
    ELSE text

\* str.strip()
strip(text) == StripRight(StripLeft(text))

\* what the version file can hold when a run starts
Files == { NoFile, <<>>, v190, v190 \o <<"\n">>, v191 }

\* faulty variant: a missing file reads as the empty text
ReadMissingAsEmpty(file, readOut) ==
    IF readOut # "ok" THEN None ELSE IF file = NoFile THEN <<>> ELSE strip(file)

\* read_last_version: the stripped text, None without a file or on an error
read_last_version(file, readOut) ==
    IF file = NoFile \/ readOut # "ok" THEN None ELSE strip(file)

\* what open(version_file, 'w') and f.write can meet: both work, open
\* fails, or open has emptied the file and the write fails
WriteOutcomes == {"ok", "error", "cut"}

\* write_last_version: open(version_file, 'w') and write; an error is
\* logged and answered with False
write_last_version(file, version, writeOut) ==
    IF writeOut = "ok" THEN [file |-> version, ret |-> TRUE]
    ELSE IF writeOut = "cut" THEN [file |-> <<>>, ret |-> FALSE]
    ELSE [file |-> file, ret |-> FALSE]

IoOutcomes == {"ok", "error"}

\* send_email_notification: nothing is sent in a dry run, which answers True
send_email_notification(c, version, out) ==
    IF c.dry_run THEN [ret |-> TRUE, sent |-> <<>>]
    ELSE [ret |-> out = "ok",
          sent |-> << [channel |-> "email", version |-> version, ok |-> out = "ok"] >>]

\* send_slack_notification: the same for the webhook; any status but 200 and
\* any exception answer False
send_slack_notification(c, version, out) ==
    IF c.dry_run THEN [ret |-> TRUE, sent |-> <<>>]
    ELSE [ret |-> out = "ok",
          sent |-> << [channel |-> "slack", version |-> version, ok |-> out = "ok"] >>]

\* the answers of the channels that were tried, in the order of the calls
Answers(c, mail, slack) ==
    (IF c.enable_email THEN << [channel |-> "email", ret |-> mail.ret] >> ELSE <<>>)
    \o (IF c.enable_slack THEN << [channel |-> "slack", ret |-> slack.ret] >> ELSE <<>>)

\* faulty variant: success starts out True, so no failure can unset it
NotifyAssumesSuccess(c, version, emailOut, slackOut) ==
    LET mail  == IF c.enable_email THEN send_email_notification(c, version, emailOut)
                 ELSE [ret |-> FALSE, sent |-> <<>>]
        slack == IF c.enable_slack THEN send_slack_notification(c, version, slackOut)
                 ELSE [ret |-> FALSE, sent |-> <<>>]
    IN  [success |-> TRUE, sent |-> mail.sent \o slack.sent,
         rets |-> Answers(c, mail, slack)]

\* notify_new_version: every enabled channel is tried, one success is enough
notify_new_version(c, version, emailOut, slackOut) ==
    LET mail  == IF c.enable_email THEN send_email_notification(c, version, emailOut)
                 ELSE [ret |-> FALSE, sent |-> <<>>]
        slack == IF c.enable_slack THEN send_slack_notification(c, version, slackOut)
                 ELSE [ret |-> FALSE, sent |-> <<>>]
    IN  [success |-> mail.ret \/ slack.ret, sent |-> mail.sent \o slack.sent,
         rets |-> Answers(c, mail, slack)]

\* notify_new_version was not called
NotCalled == [called |-> FALSE, success |-> FALSE, rets |-> <<>>]

VARIABLES
    pc,                      \* where main is
    args,                    \* parsed command line: teams, create_roles, dry_run
    teams,                   \* get_team_memberships: answer of get_teams
    conflicting_full_names,  \* get_team_memberships: full names to skip
    memberships,             \* the mapping being built, then filtered
    i,                       \* second pass: index of the next team
    errorLog,                \* contents of ERROR_LOG_FILE
    logStart,                \* length of the error log when the run began
    fetchLog,                \* per team of the second pass: what the fetch met
    k,                       \* sync loop: index of the next role
    success_count,
    fail_count,
    esRoles,                 \* role store: role name -> definition or Null
    esMappings,              \* role store: role name -> mapping or NoMapping
    role_config,             \* the client's role template
    exitStatus,              \* what main returned, -1 while running
    report,                  \* what the dry run printed
    pushLog,                 \* the putRoleMapping requests of the run
    lastIter,                \* the last sync loop iteration: calls, results, count change
    lastCall,                \* the last direct call of a client method
    preRoles,                \* esRoles before the last direct call
    preMappings,             \* esMappings before the last direct call
    repeated,                \* the last direct call repeated the one before
    cxCalls,                 \* the requests sent to the directory, with their outcome
    rejected,                \* the role store has answered a PUT of this run with 401
    cfgArgs,                 \* version checker: the parsed command line
    environ,                 \* version checker: os.environ after load_dotenv()
    config,                  \* version checker: the Config object
    versionFile,             \* version checker: contents of the version file
    latest_version,          \* main: what get_latest_version returned
    last_version,            \* main: what read_last_version returned
    retry_count,             \* get_latest_version: the argument of the running call
    attempts,                \* requests.get calls of this run
    lastFetch,               \* what the last requests.get met
    notified,                \* notify_new_version in this run: called, its answer,
                             \* and the answers of the channels it tried
    wrote,                   \* what write_last_version answered in this run
    sent,                    \* the messages this run handed to SMTP or the webhook
    fileAtStart,             \* the version file when this run began
    run,                     \* number of this run of the version checker, 0 if none
    prev                     \* how the run before this one went

vars == << pc, args, teams, conflicting_full_names, memberships, i, errorLog,
           logStart, fetchLog, k, success_count, fail_count, esRoles, esMappings,
           role_config, exitStatus, report, pushLog, lastIter, lastCall,
           preRoles, preMappings, repeated, cxCalls, rejected,
           cfgArgs, environ, config, versionFile, latest_version, last_version,
           retry_count, attempts, lastFetch, notified, wrote, sent, fileAtStart,
           run, prev >>

cxVars == << teams, conflicting_full_names, memberships, i, errorLog, fetchLog >>
syncVars == << k, success_count, fail_count, pushLog, lastIter, rejected >>
storeVars == << esRoles, esMappings >>
cfgVars == << cfgArgs, environ, config >>
vcVars == << versionFile, latest_version, last_version, retry_count, attempts,
            lastFetch, notified, wrote, sent, fileAtStart, run, prev >>
frameVars == << args, logStart, role_config, lastCall, preRoles, preMappings, repeated,
               cfgVars, vcVars >>

\* no run before this one
NoRun == [latest |-> None, last |-> None, notified |-> NotCalled, wrote |-> "none",
          dry_run |-> FALSE, exit |-> -1, sent |-> <<>>, fileAtStart |-> NoFile,
          fileAtEnd |-> NoFile]

\* the locals of a run of the version checker before its first statement
FreshRun ==
    /\ latest_version = None
    /\ last_version = None
    /\ retry_count = 0
    /\ attempts = 0
    /\ lastFetch = "none"
    /\ notified = NotCalled
    /\ wrote = "none"
    /\ sent = <<>>

\* the version checker is not run
NoChecker ==
    /\ FreshRun
    /\ versionFile = NoFile
    /\ fileAtStart = NoFile
    /\ run = 0
    /\ prev = NoRun

NoIter == [role |-> <<>>, calls |-> <<>>, createRet |-> "none", mapRet |-> "none",
           failDelta |-> 0]
NoCall == [op |-> "none", role |-> <<>>, usernames |-> <<>>, enabled |-> FALSE,
           getOut |-> "none", putOut |-> "none", ret |-> FALSE, calls |-> <<>>]

ArgSets ==
    [teams : TeamFilters, create_roles : BOOLEAN, dry_run : BOOLEAN]

\* the locals and ghosts every specification starts from
Blank ==
    /\ teams = <<>>
    /\ conflicting_full_names = {}
    /\ memberships = <<>>
    /\ i = 1
    /\ fetchLog = <<>>
    /\ k = 1
    /\ success_count = 0
    /\ fail_count = 0
    /\ exitStatus = -1
    /\ report = <<>>
    /\ pushLog = <<>>
    /\ lastIter = NoIter
    /\ lastCall = NoCall
    /\ repeated = FALSE
    /\ cxCalls = <<>>
    /\ rejected = FALSE
    /\ logStart = Len(errorLog)
    /\ preRoles = esRoles
    /\ preMappings = esMappings
    /\ cfgArgs = NoArgs
    /\ environ = NoEnv
    /\ config = NoConfig
    /\ NoChecker

\* main after parse_args; the role store holds role X with a mapping from an
\* earlier run and nothing under Y
Init ==
    /\ pc = "start"
    /\ args \in ArgSets
    /\ errorLog \in { <<>>, <<OldLine>> }
    /\ esRoles = [r \in RoleNames |-> IF r = sX THEN ExistingRole ELSE Null]
    /\ esMappings = [r \in RoleNames |-> IF r = sX THEN StaleMapping ELSE NoMapping]
    /\ role_config = ROLE_CONFIG
    /\ Blank

\* main's except Exception: log and return 1
Abort ==
    /\ pc' = "done"
    /\ exitStatus' = 1

\* faulty variant: a failed token request is logged and not re-raised
AuthenticateSwallows ==
    /\ pc = "start"
    /\ \E ok \in BOOLEAN :
         /\ cxCalls' = Append(cxCalls, [call |-> "auth", ok |-> ok])
         /\ pc' = "get_teams"
         /\ UNCHANGED exitStatus
    /\ UNCHANGED << cxVars, syncVars, storeVars, frameVars, report >>

\* cx_client.authenticate(): a failed request is re-raised
Authenticate ==
    /\ pc = "start"
    /\ \E ok \in BOOLEAN :
         /\ cxCalls' = Append(cxCalls, [call |-> "auth", ok |-> ok])
         /\ IF ok THEN pc' = "get_teams" /\ UNCHANGED exitStatus
            ELSE Abort
    /\ UNCHANGED << cxVars, syncVars, storeVars, frameVars, report >>

\* get_team_memberships up to the second pass: get_teams (a failed request
\* is re-raised), the first pass, conflict detection and the conflict report
GetTeams ==
    /\ pc = "get_teams"
    /\ \/ /\ Abort
          /\ cxCalls' = Append(cxCalls, [call |-> "teams", ok |-> FALSE])
          /\ UNCHANGED << cxVars >>
       \/ \E ts \in TeamLists :
            LET cs == DetectConflicts(FirstPass(ts))
            IN  /\ cxCalls' = Append(cxCalls, [call |-> "teams", ok |-> TRUE])
                /\ teams' = ts
                /\ errorLog' = log_error_to_file(errorLog, ConflictReport(cs))
                /\ conflicting_full_names' = ConflictingFullNames(cs)
                /\ pc' = "second_pass"
                /\ UNCHANGED << memberships, i, fetchLog, exitStatus >>
    /\ UNCHANGED << syncVars, storeVars, frameVars, report >>

\* one iteration of the second pass
FetchTeam ==
    /\ pc = "second_pass"
    /\ i <= Len(teams)
    /\ LET full_team_name == teams[i].fullName
           short == short_name(full_team_name)
       IN  IF full_team_name \in conflicting_full_names
           THEN /\ fetchLog' = Append(fetchLog, [status |-> "skipped", users |-> <<>>])
                /\ i' = i + 1
                /\ UNCHANGED << memberships, pc, exitStatus, cxCalls >>
           ELSE \E resp \in Responses :
                  LET got == get_users_by_team(resp)
                  IN  /\ fetchLog' = Append(fetchLog, resp)
                      /\ cxCalls' = Append(cxCalls, [call |-> "users",
                                                     ok |-> resp.status = "ok"])
                      /\ IF got.raised
                         THEN Abort /\ UNCHANGED << memberships, i >>
                         ELSE /\ memberships' = AddUsers(memberships, short, got.users)
                              /\ i' = i + 1
                              /\ UNCHANGED << pc, exitStatus >>
    /\ UNCHANGED << teams, conflicting_full_names, errorLog >>
    /\ UNCHANGED << syncVars, storeVars, frameVars, report >>

\* get_team_memberships has returned dict(memberships)
Returned == pc = "second_pass" /\ i > Len(teams)

\* faulty variant: the dry run prints the mapping without applying --teams
DryRunUnfiltered ==
    /\ Returned
    /\ args.dry_run
    /\ report' = memberships
    /\ pc' = "done"
    /\ exitStatus' = 0
    /\ UNCHANGED << cxVars, syncVars, storeVars, frameVars, cxCalls >>

\* main --dry-run: filter and print, no call to the role store
DryRun ==
    /\ Returned
    /\ args.dry_run
    /\ report' = ApplyFilter(memberships, args.teams)
    /\ pc' = "done"
    /\ exitStatus' = 0
    /\ UNCHANGED << cxVars, syncVars, storeVars, frameVars, cxCalls >>

\* faulty variant: main starts the sync whether or not --dry-run was given
SyncAnyway ==
    /\ Returned
    /\ memberships' = ApplyFilter(memberships, args.teams)
    /\ k' = 1
    /\ success_count' = 0
    /\ fail_count' = 0
    /\ pc' = "sync_loop"
    /\ UNCHANGED << teams, conflicting_full_names, i, errorLog, fetchLog >>
    /\ UNCHANGED << pushLog, lastIter, storeVars, frameVars, report, exitStatus >>
    /\ UNCHANGED << cxCalls, rejected >>

\* sync_team_memberships up to its loop: filter, counters at zero
SyncStart ==
    /\ Returned
    /\ ~args.dry_run
    /\ memberships' = ApplyFilter(memberships, args.teams)
    /\ k' = 1
    /\ success_count' = 0
    /\ fail_count' = 0
    /\ pc' = "sync_loop"
    /\ UNCHANGED << teams, conflicting_full_names, i, errorLog, fetchLog >>
    /\ UNCHANGED << pushLog, lastIter, storeVars, frameVars, report, exitStatus >>
    /\ UNCHANGED << cxCalls, rejected >>

\* faulty variant: the test is for a value, and an empty set is a value
IsNotNone(usernames) == usernames = usernames

\* if usernames: a set is true when it has an element
HasUsers(usernames) == usernames # {}

\* one iteration of the sync loop: the optional role creation, whose result
\* is dropped, then the mapping update for a non-empty user set
ProcessTeam ==
    /\ pc = "sync_loop"
    /\ k <= Len(memberships)
    /\ LET team_name == memberships[k].name
           usernames == memberships[k].users
       IN  \E getOut \in (IF args.create_roles
                          THEN GetOutcomes(esRoles, team_name) ELSE {"none"}),
              putRoleOut \in (IF args.create_roles THEN PutOutcomes ELSE {"none"}),
              putMapOut \in (IF HasUsers(usernames) THEN PutOutcomes ELSE {"none"}),
              order \in Orders(usernames) :
             LET cr == IF args.create_roles
                       THEN create_role_if_not_exists(esRoles, role_config, team_name,
                                                      getOut, putRoleOut)
                       ELSE [roles |-> esRoles, ret |-> TRUE, raised |-> FALSE,
                             calls |-> <<>>]
                 createRet == IF ~args.create_roles THEN "none"
                              ELSE IF cr.raised THEN "raised"
                              ELSE IF cr.ret THEN "true" ELSE "false"
                 up == update_role_mapping(esMappings, team_name, order, TRUE, putMapOut)
             IN  /\ esRoles' = cr.roles
                 /\ rejected' = ( \/ rejected
                                  \/ /\ "putRole" \in Range(cr.calls)
                                     /\ putRoleOut = "unauthorized"
                                  \/ /\ ~cr.raised
                                     /\ HasUsers(usernames)
                                     /\ putMapOut = "unauthorized" )
                 /\ IF cr.raised
                    THEN /\ Abort
                         /\ lastIter' = [role |-> team_name, calls |-> cr.calls,
                                         createRet |-> createRet, mapRet |-> "none",
                                         failDelta |-> 0]
                         /\ UNCHANGED << esMappings, k, success_count, fail_count, pushLog >>
                    ELSE IF ~HasUsers(usernames)
                    THEN /\ lastIter' = [role |-> team_name, calls |-> cr.calls,
                                         createRet |-> createRet, mapRet |-> "none",
                                         failDelta |-> 0]
                         /\ k' = k + 1
                         /\ UNCHANGED << esMappings, success_count, fail_count, pushLog,
                                         pc, exitStatus >>
                    ELSE /\ esMappings' = up.mappings
                         /\ pushLog' = Append(pushLog, [role |-> team_name,
                                                        usernames |-> order,
                                                        ok |-> putMapOut = "ok"])
                         /\ lastIter' = [role |-> team_name,
                                         calls |-> Append(cr.calls, "putRoleMapping"),
                                         createRet |-> createRet,
                                         mapRet |-> IF up.raised THEN "raised"
                                                    ELSE IF up.ret THEN "true" ELSE "false",
                                         failDelta |-> IF up.raised \/ up.ret THEN 0 ELSE 1]
                         /\ IF up.raised
                            THEN Abort /\ UNCHANGED << k, success_count, fail_count >>
                            ELSE /\ k' = k + 1
                                 /\ success_count' = success_count + (IF up.ret THEN 1 ELSE 0)
                                 /\ fail_count' = fail_count + (IF up.ret THEN 0 ELSE 1)
                                 /\ UNCHANGED << pc, exitStatus >>
    /\ UNCHANGED << cxVars, frameVars, report, cxCalls >>

\* the loop is over: sync_team_memberships returns and main returns 0
SyncDone ==
    /\ pc = "sync_loop"
    /\ k > Len(memberships)
    /\ pc' = "done"
    /\ exitStatus' = 0
    /\ UNCHANGED << cxVars, syncVars, storeVars, frameVars, report, cxCalls >>

Next ==
    \/ Authenticate
    \/ GetTeams
    \/ FetchTeam
    \/ DryRun
    \/ SyncStart
    \/ ProcessTeam
    \/ SyncDone

Spec == Init /\ [][Next]_vars

\* ------------------------------------ the variant without conflict detection
\* the first CheckmarxClient's get_team_memberships is entered
InitNaive ==
    /\ pc = "naive_get_teams"
    /\ args = [teams |-> <<>>, create_roles |-> FALSE, dry_run |-> TRUE]
    /\ errorLog = <<>>
    /\ esRoles = [r \in RoleNames |-> Null]
    /\ esMappings = [r \in RoleNames |-> NoMapping]
    /\ role_config = ROLE_CONFIG
    /\ Blank

\* teams = self.get_teams(): a failed request is re-raised
NaiveGetTeams ==
    /\ pc = "naive_get_teams"
    /\ \/ /\ Abort
          /\ cxCalls' = Append(cxCalls, [call |-> "teams", ok |-> FALSE])
          /\ UNCHANGED teams
       \/ \E ts \in TeamLists :
            /\ cxCalls' = Append(cxCalls, [call |-> "teams", ok |-> TRUE])
            /\ teams' = ts
            /\ pc' = "naive_loop"
            /\ UNCHANGED exitStatus
    /\ UNCHANGED << conflicting_full_names, memberships, i, errorLog, fetchLog >>
    /\ UNCHANGED << syncVars, storeVars, frameVars, report >>

\* one iteration of its loop: the key is the team's full name
NaiveFetchTeam ==
    /\ pc = "naive_loop"
    /\ i <= Len(teams)
    /\ LET team_name == teams[i].fullName
       IN  \E resp \in Responses :
             LET got == get_users_by_team(resp)
             IN  /\ fetchLog' = Append(fetchLog, resp)
                 /\ cxCalls' = Append(cxCalls, [call |-> "users",
                                                ok |-> resp.status = "ok"])
                 /\ IF got.raised
                    THEN Abort /\ UNCHANGED << memberships, i >>
                    ELSE /\ memberships' = AddUsers(memberships, team_name, got.users)
                         /\ i' = i + 1
                         /\ UNCHANGED << pc, exitStatus >>
    /\ UNCHANGED << teams, conflicting_full_names, errorLog >>
    /\ UNCHANGED << syncVars, storeVars, frameVars, report >>

\* its get_team_memberships has returned dict(memberships)
NaiveReturned == pc = "naive_loop" /\ i > Len(teams)

InitBoth == Init \/ InitNaive

\* the script with either client
NextBoth ==
    \/ Authenticate
    \/ GetTeams
    \/ FetchTeam
    \/ DryRun
    \/ SyncStart
    \/ ProcessTeam
    \/ SyncDone
    \/ NaiveGetTeams
    \/ NaiveFetchTeam

SpecBoth == InitBoth /\ [][NextBoth]_vars

\* ------------------------------------- update_role_mapping called directly
\* username lists a caller can pass
UsernameLists == UNION { [1..n -> {"u1", "u2"}] : n \in 0..MaxUsernames }

\* a mapping of role Y that was in the store before
StaleOther == MappingBody(sY, <<"u8">>, FALSE)

\* the client right after construction; the store holds what earlier runs left
InitMapping ==
    /\ pc = "client"
    /\ args = [teams |-> <<>>, create_roles |-> FALSE, dry_run |-> FALSE]
    /\ errorLog = <<>>
    /\ esRoles = [r \in RoleNames |-> Null]
    /\ esMappings \in { [r \in RoleNames |-> IF r = sX THEN mx ELSE my] :
                          mx \in {NoMapping, StaleMapping},
                          my \in {NoMapping, StaleOther} }
    /\ role_config = ROLE_CONFIG
    /\ Blank

\* es_client.update_role_mapping(sX, usernames, enabled)
CallUpdateRoleMapping ==
    /\ pc = "client"
    /\ \E usernames \in UsernameLists, enabled \in BOOLEAN, putOut \in PutOutcomes :
         LET up == update_role_mapping(esMappings, sX, usernames, enabled, putOut)
         IN  /\ esMappings' = up.mappings
             /\ preMappings' = esMappings
             /\ lastCall' = [op |-> "update", role |-> sX,
                             usernames |-> usernames, enabled |-> enabled,
                             getOut |-> "none", putOut |-> putOut,
                             ret |-> up.ret, calls |-> <<"putRoleMapping">>]
             /\ repeated' = ( /\ lastCall.op = "update" /\ lastCall.ret /\ up.ret
                              /\ lastCall.usernames = usernames
                              /\ lastCall.enabled = enabled )
    /\ UNCHANGED << pc, cxVars, syncVars, esRoles, args, logStart, role_config,
                    preRoles, exitStatus, report, cxCalls, cfgVars, vcVars >>

NextMapping == CallUpdateRoleMapping

SpecMapping == InitMapping /\ [][NextMapping]_vars

\* ------------------------------- create_role_if_not_exists called directly
\* role templates a caller can construct the client with
TemplateNames ==
    JMap(<<"indices">>,
         << JList(<< JMap(<<"names", "privileges">>,
                          << JList(<< JStr(<<TEAM, "-*">>) >>),
                             JList(<< S("read") >>) >>) >>) >>)

TemplateNested ==
    JMap(<<"cluster", "indices", "applications">>,
         << JList(<< S("monitor") >>),
            JList(<< JMap(<<"names", "privileges", "query">>,
                          << JList(<< S("issues*") >>),
                             JList(<< S("read") >>),
                             JMap(<<"bool">>,
                                  << JMap(<<"should", "boost">>,
                                          << JList(<< JMap(<<"term">>,
                                                           << JMap(<<"team">>, << S(TEAM) >>) >>),
                                                      JStr(<<"pre-", TEAM, "/", TEAM>>),
                                                      S("plain"),
                                                      JNum >>),
                                             JNum >>) >>) >>) >>),
            JList(<<>>) >>)

TemplateExtra ==
    JMap(<<"cluster", "indices", "applications">>,
         << JList(<< S("monitor") >>),
            JList(<< JMap(<<"names", "privileges", "query", "field_security">>,
                          << JList(<< S("issues*") >>),
                             JList(<< S("read") >>),
                             S(TEAM),
                             JMap(<<"grant">>, << JList(<< S("title") >>) >>) >>),
                        JMap(<<"names", "privileges">>,
                             << JList(<< S("scans*") >>), JList(<< S("read") >>) >>) >>),
            JList(<< JMap(<<"application", "privileges", "resources">>,
                          << S("kibana-.kibana"), JList(<< S("read") >>),
                             JList(<< JStr(<<"space:", TEAM>>) >>) >>) >>) >>)

Templates == { ROLE_CONFIG, TemplateNames, TemplateNested, TemplateExtra }

\* the client right after construction with a template; the role store holds
\* what earlier runs left
InitRole ==
    /\ pc = "client"
    /\ args = [teams |-> <<>>, create_roles |-> FALSE, dry_run |-> FALSE]
    /\ errorLog = <<>>
    /\ esRoles \in [RoleNames -> {Null, ExistingRole}]
    /\ esMappings = [r \in RoleNames |-> NoMapping]
    /\ role_config \in Templates
    /\ Blank

\* es_client.create_role_if_not_exists(role_name)
CallCreateRole ==
    /\ pc = "client"
    /\ \E role_name \in RoleNames :
       \E getOut \in GetOutcomes(esRoles, role_name), putOut \in PutOutcomes :
         LET cr == create_role_if_not_exists(esRoles, role_config, role_name,
                                             getOut, putOut)
         IN  /\ esRoles' = cr.roles
             /\ preRoles' = esRoles
             /\ lastCall' = [op |-> "create", role |-> role_name,
                             usernames |-> <<>>, enabled |-> FALSE,
                             getOut |-> getOut,
                             putOut |-> IF "putRole" \in Range(cr.calls)
                                        THEN putOut ELSE "none",
                             ret |-> cr.ret, calls |-> cr.calls]
    /\ UNCHANGED << pc, cxVars, syncVars, esMappings, args, logStart, role_config,
                    preMappings, repeated, exitStatus, report, cxCalls, cfgVars,
                    vcVars >>

NextRole == CallCreateRole

SpecRole == InitRole /\ [][NextRole]_vars

\* ----------------------------------- sync_team_memberships called directly
\* mappings a cx_client can answer get_team_memberships with: role names
\* once each, any set of usernames, the empty set included
StubMemberships ==
    { m \in UNION { [1..n -> [name : RoleNames, users : SUBSET {"u1", "u2"}]] :
                       n \in 0..Cardinality(RoleNames) } :
        \A a, b \in DOMAIN m : a # b => m[a].name # m[b].name }

\* sync_team_memberships(cx_client, es_client, team_filter, create_roles)
\* right after cx_client.get_team_memberships() has returned
InitSync ==
    /\ pc = "second_pass"
    /\ args \in {a \in ArgSets : ~a.dry_run}
    /\ memberships \in StubMemberships
    /\ errorLog = <<>>
    /\ esRoles = [r \in RoleNames |-> IF r = sX THEN ExistingRole ELSE Null]
    /\ esMappings = [r \in RoleNames |-> IF r = sX THEN StaleMapping ELSE NoMapping]
    /\ role_config = ROLE_CONFIG
    /\ teams = <<>>
    /\ conflicting_full_names = {}
    /\ i = 1
    /\ fetchLog = <<>>
    /\ k = 1
    /\ success_count = 0
    /\ fail_count = 0
    /\ exitStatus = -1
    /\ report = <<>>
    /\ pushLog = <<>>
    /\ lastIter = NoIter
    /\ lastCall = NoCall
    /\ repeated = FALSE
    /\ cxCalls = <<>>
    /\ rejected = FALSE
    /\ logStart = 0
    /\ preRoles = esRoles
    /\ preMappings = esMappings
    /\ cfgArgs = NoArgs
    /\ environ = NoEnv
    /\ config = NoConfig
    /\ NoChecker

NextSync ==
    \/ SyncStart
    \/ ProcessTeam
    \/ SyncDone

SpecSync == InitSync /\ [][NextSync]_vars

\* ------------------------------------- the version checker's configuration
\* main of the version checker after parse_args
InitConfig ==
    /\ pc = "config"
    /\ cfgArgs \in CommandLines
    /\ environ \in Environments
    /\ config = NoConfig
    /\ args = [teams |-> <<>>, create_roles |-> FALSE, dry_run |-> FALSE]
    /\ errorLog = <<>>
    /\ esRoles = [r \in RoleNames |-> Null]
    /\ esMappings = [r \in RoleNames |-> NoMapping]
    /\ role_config = ROLE_CONFIG
    /\ teams = <<>>
    /\ conflicting_full_names = {}
    /\ memberships = <<>>
    /\ i = 1
    /\ fetchLog = <<>>
    /\ k = 1
    /\ success_count = 0
    /\ fail_count = 0
    /\ exitStatus = -1
    /\ report = <<>>
    /\ pushLog = <<>>
    /\ lastIter = NoIter
    /\ lastCall = NoCall
    /\ repeated = FALSE
    /\ cxCalls = <<>>
    /\ rejected = FALSE
    /\ logStart = 0
    /\ preRoles = esRoles
    /\ preMappings = esMappings
    /\ NoChecker

\* config = Config(args); a ValueError is not caught by main and ends the
\* process with a traceback and status 1
ConfigInit ==
    /\ pc = "config"
    /\ config' = Config(cfgArgs, environ)
    /\ IF config'.raised
       THEN pc' = "done" /\ exitStatus' = 1
       ELSE pc' = "configured" /\ UNCHANGED exitStatus
    /\ UNCHANGED << cxVars, syncVars, storeVars, report, cxCalls >>
    /\ UNCHANGED << args, logStart, role_config, lastCall, preRoles, preMappings,
                    repeated, cfgArgs, environ, vcVars >>

NextConfig == ConfigInit

SpecConfig == InitConfig /\ [][NextConfig]_vars

\* -------------------------------------------- the version checker's main
\* command lines of the runs: any choice of the five switches
CheckerCommandLines ==
    { [NoArgs EXCEPT !.enable_email = a, !.disable_slack = a,
                     !.disable_email = b, !.enable_slack = b,
                     !.dry_run = d] : a, b, d \in BOOLEAN }

\* an environment with the mail account and the webhook in it
FullEnv ==
    [NoEnv EXCEPT !.EMAIL_USERNAME = <<"user">>, !.EMAIL_PASSWORD = <<"secret">>,
                  !.EMAIL_FROM = <<"from">>, !.EMAIL_TO = <<"to">>,
                  !.SLACK_WEBHOOK_URL = <<HooksPrefix, "T0">>]

\* environments of the runs: DRY_RUN unset or true
CheckerEnvironments ==
    { [FullEnv EXCEPT !.DRY_RUN = t] : t \in {None, <<"t", "r", "u", "e">>} }

\* the sync script's variables, which the version checker does not have
NoSync ==
    /\ args = [teams |-> <<>>, create_roles |-> FALSE, dry_run |-> FALSE]
    /\ errorLog = <<>>
    /\ esRoles = [r \in RoleNames |-> Null]
    /\ esMappings = [r \in RoleNames |-> NoMapping]
    /\ role_config = ROLE_CONFIG
    /\ teams = <<>>
    /\ conflicting_full_names = {}
    /\ memberships = <<>>
    /\ i = 1
    /\ fetchLog = <<>>
    /\ k = 1
    /\ success_count = 0
    /\ fail_count = 0
    /\ report = <<>>
    /\ pushLog = <<>>
    /\ lastIter = NoIter
    /\ lastCall = NoCall
    /\ repeated = FALSE
    /\ cxCalls = <<>>
    /\ rejected = FALSE
    /\ logStart = 0
    /\ preRoles = esRoles
    /\ preMappings = esMappings

\* the first run of the version checker after parse_args
InitChecker ==
    /\ pc = "config"
    /\ cfgArgs \in CheckerCommandLines
    /\ environ \in CheckerEnvironments
    /\ config = NoConfig
    /\ versionFile \in Files
    /\ fileAtStart = versionFile
    /\ run = 1
    /\ prev = NoRun
    /\ exitStatus = -1
    /\ FreshRun
    /\ NoSync

syncAll == << cxVars, syncVars, storeVars, report, cxCalls, args, logStart, role_config,
             lastCall, preRoles, preMappings, repeated >>

\* config.validate(): a ConfigError is logged and the run exits with 1
Validate ==
    /\ pc = "configured"
    /\ IF validate(config)
       THEN pc' = "fetch" /\ UNCHANGED exitStatus
       ELSE pc' = "done" /\ exitStatus' = 1
    /\ UNCHANGED << syncAll, cfgVars, vcVars >>

\* one call of get_latest_version: a request, then a return or the
\* recursive call for the next attempt
FetchAttempt ==
    /\ pc = "fetch"
    /\ \E out \in FetchOutcomes :
         LET r == get_latest_version(retry_count, out)
         IN  /\ attempts' = attempts + 1
             /\ lastFetch' = out.status
             /\ IF r.retry
                THEN /\ retry_count' = retry_count + 1
                     /\ UNCHANGED << latest_version, pc >>
                ELSE /\ latest_version' = r.value
                     /\ pc' = "fetched"
                     /\ UNCHANGED retry_count
    /\ UNCHANGED << syncAll, cfgVars, exitStatus >>
    /\ UNCHANGED << versionFile, last_version, notified, wrote, sent, fileAtStart,
                    run, prev >>

\* main from `if not latest_version` to its sys.exit
CheckVersion ==
    /\ pc = "fetched"
    /\ pc' = "done"
    /\ IF ~Truthy(latest_version)
       THEN /\ exitStatus' = 1
            /\ UNCHANGED << versionFile, last_version, notified, wrote, sent >>
       ELSE \E readOut \in IoOutcomes, emailOut \in IoOutcomes,
               slackOut \in IoOutcomes, writeOut \in WriteOutcomes :
              LET last == read_last_version(versionFile, readOut)
                  w    == write_last_version(versionFile, latest_version, writeOut)
                  n    == notify_new_version(config, latest_version, emailOut, slackOut)
                  wret == IF w.ret THEN "ok" ELSE "failed"
              IN  /\ last_version' = last
                  /\ IF last = None
                     THEN /\ versionFile' = w.file
                          /\ wrote' = wret
                          /\ exitStatus' = 0
                          /\ UNCHANGED << notified, sent >>
                     ELSE IF last # latest_version
                     THEN /\ sent' = n.sent
                          /\ notified' = [called |-> TRUE, success |-> n.success,
                                           rets |-> n.rets]
                          /\ IF n.success
                             THEN /\ versionFile' = w.file
                                  /\ wrote' = wret
                                  /\ exitStatus' = 0
                             ELSE /\ exitStatus' = 1
                                  /\ UNCHANGED << versionFile, wrote >>
                     ELSE /\ exitStatus' = 0
                          /\ UNCHANGED << versionFile, notified, wrote, sent >>
    /\ UNCHANGED << syncAll, cfgVars >>
    /\ UNCHANGED << latest_version, retry_count, attempts, lastFetch, fileAtStart,
                    run, prev >>

\* the script is started again, with a command line and an environment of
\* its own, over the version file the run before left
Rerun ==
    /\ pc = "done"
    /\ run >= 1
    /\ run < MaxRuns
    /\ prev' = [latest |-> latest_version, last |-> last_version,
                notified |-> notified, wrote |-> wrote, dry_run |-> config.dry_run,
                exit |-> exitStatus, sent |-> sent, fileAtStart |-> fileAtStart,
                fileAtEnd |-> versionFile]
    /\ run' = run + 1
    /\ pc' = "config"
    /\ exitStatus' = -1
    /\ cfgArgs' \in CheckerCommandLines
    /\ environ' \in CheckerEnvironments
    /\ config' = NoConfig
    /\ fileAtStart' = versionFile
    /\ latest_version' = None
    /\ last_version' = None
    /\ retry_count' = 0
    /\ attempts' = 0
    /\ lastFetch' = "none"
    /\ notified' = NotCalled
    /\ wrote' = "none"
    /\ sent' = <<>>
    /\ UNCHANGED << syncAll, versionFile >>

NextChecker ==
    \/ ConfigInit
    \/ Validate
    \/ FetchAttempt
    \/ CheckVersion
    \/ Rerun

SpecChecker == InitChecker /\ [][NextChecker]_vars

\* one run of the script, from Config(args) to sys.exit
NextRun ==
    \/ ConfigInit
    \/ Validate
    \/ FetchAttempt
    \/ CheckVersion

\* a run that can take a step does take one: the script is one thread and
\* every wait in it (the request timeout, time.sleep) is bounded
SpecRun == InitChecker /\ [][NextRun]_vars /\ WF_vars(NextRun)

\* ============================================================ properties
\* the text after the last "/" of a full name (all of it when there is none)
LastSegment(full) ==
    LET cuts == {n \in DOMAIN full : full[n] = "/"}
        from == IF cuts = {} THEN 1
                ELSE 1 + CHOOSE n \in cuts : \A m \in cuts : m <= n
    IN  SubSeq(full, from, Len(full))

\* the teams of the directory's answer whose last segment is X
GroupsNamed(X) == {n \in DOMAIN teams : LastSegment(teams[n].fullName) = X}

SegmentsSeen == {LastSegment(teams[n].fullName) : n \in DOMAIN teams}

\* X is derived by two teams with different full paths
Conflicting(X) ==
    \E a, b \in GroupsNamed(X) : teams[a].fullName # teams[b].fullName

\* the non-blank usernames of a fetched body
NamesIn(users) == {Username(users[n]) : n \in DOMAIN users} \ {""}

UsersUnder(ms, name) ==
    IF name \in Keys(ms) THEN ms[Lookup(ms, name)].users ELSE {}

\* C1: two or more teams with different full paths and the same last segment
\* X: X is never a key of the mapping, and none of those teams is fetched, so
\* none of their usernames enters the mapping under any key
C1_ConflictingGroupsExcluded ==
    \A X \in SegmentsSeen :
        Conflicting(X) =>
            /\ X \notin Keys(memberships)
            /\ \A n \in GroupsNamed(X) :
                 n \in DOMAIN fetchLog => fetchLog[n].status = "skipped"

\* C1 witness: the mapping was returned for a directory with a conflicting
\* pair and a third team whose users were recorded
C1_Witness ==
    /\ Returned
    /\ \E X \in SegmentsSeen : Conflicting(X) /\ Cardinality(GroupsNamed(X)) = 2
    /\ memberships # <<>>

\* the part of the error log this run wrote
RunLines == SubSeq(errorLog, logStart + 1, Len(errorLog))

\* the report entries for role name X
EntriesFor(lines, X) ==
    {n \in DOMAIN lines : lines[n].kind = "role" /\ lines[n].role = X}

\* the full paths listed right under the entry at line n
PathsUnder(lines, n) ==
    { lines[m].path : m \in { m \in DOMAIN lines :
                                /\ m > n
                                /\ \A q \in (n + 1)..m : lines[q].kind = "path" } }

\* C2: the report of a run has exactly one entry for every conflicting short
\* name, every entry is for a short name of the directory, and under an entry
\* stand the full paths of exactly the teams deriving that short name
C2_ConflictReportComplete ==
    /\ \A X \in SegmentsSeen :
          /\ Conflicting(X) => Cardinality(EntriesFor(RunLines, X)) = 1
          /\ \A n \in EntriesFor(RunLines, X) :
               PathsUnder(RunLines, n) = {teams[g].fullName : g \in GroupsNamed(X)}
    /\ \A n \in DOMAIN RunLines :
          RunLines[n].kind = "role" => RunLines[n].role \in SegmentsSeen

\* C2 witness: a report was written for a directory with the conflicting
\* paths /A/X and /B/X and a third team Y
C2_Witness ==
    /\ Len(teams) = 3
    /\ Conflicting(sX)
    /\ sY \in SegmentsSeen
    /\ EntriesFor(RunLines, sX) # {}

\* C3 as claimed: with pairwise different last segments the returned mapping
\* has exactly those segments as keys, each with its team's usernames, teams
\* with an empty or failed member list included
C3_KeysAreAllSegments ==
    (Returned /\ \A a, b \in DOMAIN teams :
                    a # b => LastSegment(teams[a].fullName) # LastSegment(teams[b].fullName))
    => /\ Keys(memberships) = SegmentsSeen
       /\ \A n \in DOMAIN teams :
            UsersUnder(memberships, LastSegment(teams[n].fullName))
              = NamesIn(fetchLog[n].users)

\* C4: a failed member fetch yields no members and does not end the run: the
\* second pass reaches every team, a failed team gets no key, and the users
\* of every fetched team are recorded under its short name
C4_FetchFailureIsolated ==
    /\ (pc = "done" /\ teams # <<>>) => Len(fetchLog) = Len(teams)
    /\ pc = "second_pass" =>
         \A n \in DOMAIN fetchLog :
            LET X == LastSegment(teams[n].fullName)
            IN  /\ fetchLog[n].status \in {"denied", "error"} => X \notin Keys(memberships)
                /\ fetchLog[n].status = "ok" =>
                     UsersUnder(memberships, X) = NamesIn(fetchLog[n].users)

\* C4 witness: a fetch failed and a later team's users were recorded
C4_Witness ==
    /\ Returned
    /\ \E n, m \in DOMAIN fetchLog :
          /\ n < m
          /\ fetchLog[n].status \in {"denied", "error"}
          /\ fetchLog[m].status = "ok"
          /\ LastSegment(teams[m].fullName) \in Keys(memberships)

\* the usernames a stored mapping grants its role to
Granted(m) == {m.any[n].value : n \in DOMAIN m.any}

\* C5: a successful update_role_mapping that repeats the successful call
\* before it, with the same role, usernames and enabled flag, leaves the
\* mapping store as the first call left it
C5_UpdateIdempotent ==
    repeated => esMappings = preMappings

\* C5 witness: a call with two usernames was repeated
C5_Witness ==
    /\ repeated
    /\ lastCall.usernames = <<"u1", "u2">>
    /\ lastCall.enabled

\* C6: after a successful update the role's mapping holds one username
\* predicate per given username, in the order given, and nothing else;
\* no user of the mapping stored before remains unless given again; the
\* mappings of the other roles are as before
C6_UpdateReplaces ==
    (lastCall.op = "update" /\ lastCall.ret) =>
        LET m == esMappings[lastCall.role]
        IN  /\ m.exists
            /\ m.enabled = lastCall.enabled
            /\ m.roles = <<lastCall.role>>
            /\ Len(m.any) = Len(lastCall.usernames)
            /\ \A n \in DOMAIN m.any :
                 m.any[n] = [field |-> "username", value |-> lastCall.usernames[n]]
            /\ (Granted(preMappings[lastCall.role]) \ Range(lastCall.usernames))
                 \cap Granted(m) = {}
            /\ \A r \in RoleNames \ {lastCall.role} : esMappings[r] = preMappings[r]

\* C6 witness: a two-user update replaced a stored mapping of another user
\* while another role had a mapping of its own
C6_Witness ==
    /\ lastCall.op = "update"
    /\ lastCall.ret
    /\ Len(lastCall.usernames) = 2
    /\ preMappings[sX] = StaleMapping
    /\ esMappings[sY] = StaleOther

\* the last direct call stored a new role definition
Created ==
    /\ lastCall.op = "create"
    /\ lastCall.ret
    /\ "putRole" \in Range(lastCall.calls)

\* C7 as claimed: for a role that is in the store, whatever the existence
\* check answers, no putRole is issued and the stored definition stays
C7_ExistingRoleUntouched ==
    (lastCall.op = "create" /\ preRoles[lastCall.role] # Null) =>
        /\ "putRole" \notin Range(lastCall.calls)
        /\ esRoles[lastCall.role] = preRoles[lastCall.role]

\* ---- positions in a JSON value: a step names a key of a mapping or an
\* index of a sequence
Step(key, idx) == [key |-> key, idx |-> idx]

StepsOf(node) ==
    IF node.tag = "map" THEN {Step(node.keys[n], 0) : n \in DOMAIN node.keys}
    ELSE IF node.tag = "list" THEN {Step("", n) : n \in DOMAIN node.kids}
    ELSE {}

Child(node, step) ==
    IF node.tag = "map" THEN Item(node, step.key) ELSE node.kids[step.idx]

RECURSIVE HasPath(_, _)
HasPath(node, path) ==
    path = <<>> \/ ( /\ Head(path) \in StepsOf(node)
                     /\ HasPath(Child(node, Head(path)), Tail(path)) )

RECURSIVE At(_, _)
At(node, path) ==
    IF path = <<>> THEN node ELSE At(Child(node, Head(path)), Tail(path))

RECURSIVE ScalarPaths(_)
\* the positions of the scalars of a value
ScalarPaths(node) ==
    IF node.tag \in {"map", "list"}
    THEN UNION { { <<st>> \o p : p \in ScalarPaths(Child(node, st)) } : st \in StepsOf(node) }
    ELSE {<<>>}

RECURSIVE NodePaths(_)
\* the positions of the mappings and sequences of a value
NodePaths(node) ==
    IF node.tag \in {"map", "list"}
    THEN {<<>>} \cup
         UNION { { <<st>> \o p : p \in NodePaths(Child(node, st)) } : st \in StepsOf(node) }
    ELSE {}

RECURSIVE TokenReplaced(_, _)
\* a string with every placeholder replaced by the role name
TokenReplaced(str, R) ==
    IF str = <<>> THEN <<>>
    ELSE (IF Head(str) = TEAM THEN R ELSE <<Head(str)>>) \o TokenReplaced(Tail(str), R)

\* what a scalar of the template is to become in the role of name R
Substituted(scalar, R) ==
    IF scalar.tag = "str" THEN JStr(TokenReplaced(scalar.str, R)) ELSE scalar

\* dst is src with the placeholder replaced in every string scalar, at every
\* depth, and nothing else changed
DeepSubstituted(src, dst, R) ==
    /\ ScalarPaths(dst) = ScalarPaths(src)
    /\ NodePaths(dst) = NodePaths(src)
    /\ \A p \in ScalarPaths(src) : At(dst, p) = Substituted(At(src, p), R)
    /\ \A p \in NodePaths(src) :
         /\ At(dst, p).tag = At(src, p).tag
         /\ At(dst, p).keys = At(src, p).keys

\* C8 as claimed: every scalar of the template, under any field, is in the
\* created role at the same place with the placeholder replaced by the role name
C8_EveryFieldSubstituted ==
    Created =>
        \A p \in ScalarPaths(role_config) :
            /\ HasPath(esRoles[lastCall.role], p)
            /\ At(esRoles[lastCall.role], p)
                 = Substituted(At(role_config, p), lastCall.role)

\* C8 amended: the created role has cluster, indices and applications; the
\* query of an index entry is the template's query with the placeholder
\* replaced at every depth; cluster, the names and privileges of an index
\* entry and the application entries are the template's, placeholder
\* included; an index entry carries nothing else
C8_QuerySubstituted ==
    Created =>
        LET def  == esRoles[lastCall.role]
            none == JList(<<>>)
            cidx == Get(role_config, "indices", none).kids
            didx == Get(def, "indices", none).kids
        IN  /\ def.tag = "map"
            /\ def.keys = <<"cluster", "indices", "applications">>
            /\ Item(def, "cluster") = Get(role_config, "cluster", none)
            /\ Item(def, "applications").tag = "list"
            /\ Item(def, "applications").kids = Get(role_config, "applications", none).kids
            /\ Item(def, "indices").tag = "list"
            /\ Len(didx) = Len(cidx)
            /\ \A n \in DOMAIN cidx :
                 /\ didx[n].tag = "map"
                 /\ Range(didx[n].keys) =
                      {"names", "privileges"} \cup (Range(cidx[n].keys) \cap {"query"})
                 /\ Item(didx[n], "names") = Item(cidx[n], "names")
                 /\ Item(didx[n], "privileges") = Item(cidx[n], "privileges")
                 /\ Has(cidx[n], "query") =>
                      DeepSubstituted(Item(cidx[n], "query"), Item(didx[n], "query"),
                                      lastCall.role)

\* C8 witness: a role was created from the template whose query holds the
\* placeholder inside a sequence inside two mappings
C8_Witness ==
    /\ Created
    /\ role_config = TemplateNested
    /\ preRoles[lastCall.role] = Null
    /\ esRoles[lastCall.role] # Null

\* the roles of the filtered mapping that have users
RolesToPush ==
    {memberships[n].name : n \in {m \in DOMAIN memberships : memberships[m].users # {}}}

\* C9: a failed putRoleMapping is answered, not raised: the failure count is
\* the number of failed pushes so far (one per failed role), and a run that
\* entered the loop ends only after every role with users has had its push
C9_MappingFailureIsolated ==
    /\ lastIter.mapRet # "raised"
    /\ fail_count = Cardinality({n \in DOMAIN pushLog : ~pushLog[n].ok})
    /\ (pc = "done" /\ lastIter # NoIter) =>
         /\ exitStatus = 0
         /\ {pushLog[n].role : n \in DOMAIN pushLog} = RolesToPush

\* C9 witness: the push of the first role failed, the second role was pushed
\* after it, and the run ended with one failure and one success
C9_Witness ==
    /\ pc = "done"
    /\ Len(pushLog) = 2
    /\ ~pushLog[1].ok
    /\ pushLog[2].ok
    /\ fail_count = 1
    /\ success_count = 1

\* C10 as claimed: with --create-roles, an iteration whose role creation
\* failed raises the failure count
C10_CreateFailureCounted ==
    (args.create_roles /\ lastIter.createRet = "false") => lastIter.failDelta >= 1

\* the teams whose members were fetched and gave at least one username
Reconciled ==
    {n \in DOMAIN fetchLog : fetchLog[n].status = "ok" /\ NamesIn(fetchLog[n].users) # {}}

\* C11: with a team filter, every putRoleMapping and every call of a loop
\* iteration (getRole, putRole) is for a role whose name is equal to an entry
\* of the filter; the counters count the pushes of such roles only, and what
\* the store holds under every other role name is what it held before the run
C11_OnlyFilteredRolesPushed ==
    args.teams # <<>> =>
        /\ \A n \in DOMAIN pushLog : pushLog[n].role \in Range(args.teams)
        /\ lastIter # NoIter => lastIter.role \in Range(args.teams)
        /\ success_count + fail_count = Len(pushLog)
        /\ \A r \in RoleNames \ Range(args.teams) :
             esRoles[r] = preRoles[r] /\ esMappings[r] = preMappings[r]

\* C11 witness: teams X and Y both gave users, the filter names Y and the
\* full path of X, and the run ended with Y pushed and nothing else
C11_Witness ==
    /\ pc = "done"
    /\ args.teams = <<sY, P("A", "X")>>
    /\ {LastSegment(teams[n].fullName) : n \in Reconciled} = {sX, sY}
    /\ Len(pushLog) = 1
    /\ pushLog[1].role = sY
    /\ success_count = 1
    /\ fail_count = 0

\* the positions of the sync loop that are behind it and hold a role with users
PushedPositions ==
    {n \in 1..(k - 1) : n \in DOMAIN memberships /\ memberships[n].users # {}}

\* C12: no putRoleMapping is for a role whose member set is empty, the two
\* counters together count the roles with users the loop has passed, and the
\* iteration of a role without users issues no putRoleMapping and counts nothing
C12_EmptyRoleSkipped ==
    /\ \A n \in DOMAIN pushLog :
          /\ pushLog[n].usernames # <<>>
          /\ UsersUnder(memberships, pushLog[n].role) # {}
    /\ success_count + fail_count = Cardinality(PushedPositions)
    /\ (lastIter # NoIter /\ UsersUnder(memberships, lastIter.role) = {}) =>
          /\ "putRoleMapping" \notin Range(lastIter.calls)
          /\ lastIter.mapRet = "none"
          /\ lastIter.failDelta = 0

\* C12 witness: the loop pushed a role with users and then passed a role
\* without users, with role creation on, and ended with one success
C12_Witness ==
    /\ pc = "done"
    /\ args.create_roles
    /\ Len(memberships) = 2
    /\ memberships[1].users # {}
    /\ memberships[2].users = {}
    /\ lastIter.role = memberships[2].name
    /\ Len(pushLog) = 1
    /\ success_count = 1
    /\ fail_count = 0

\* C13: in a run with --dry-run no loop iteration happens, so no getRole,
\* putRole or putRoleMapping is issued, and the role store holds what it
\* held before the run
C13_DryRunMutatesNothing ==
    args.dry_run =>
        /\ lastIter = NoIter
        /\ pushLog = <<>>
        /\ ~rejected
        /\ esRoles = preRoles
        /\ esMappings = preMappings

\* C13 witness: a dry run with --create-roles and a team filter ended after
\* reporting a role with users
C13_Witness ==
    /\ pc = "done"
    /\ exitStatus = 0
    /\ args.dry_run
    /\ args.create_roles
    /\ args.teams # <<>>
    /\ report # <<>>
    /\ \E n \in DOMAIN report : report[n].users # {}

\* what the directory gave this run, restricted to the team filter: the last
\* segment and the usernames of every team whose fetch gave a username
ExpectedMapping ==
    { <<LastSegment(teams[n].fullName), NamesIn(fetchLog[n].users)>> :
        n \in { m \in Reconciled :
                   \/ args.teams = <<>>
                   \/ LastSegment(teams[m].fullName) \in Range(args.teams) } }

\* role name and user set of every entry the dry run printed
ReportedMapping == { <<report[n].name, report[n].users>> : n \in DOMAIN report }

\* role name and user set of every putRoleMapping request of the run
PushedMapping ==
    { <<pushLog[n].role, Range(pushLog[n].usernames)>> : n \in DOMAIN pushLog }

\* C14: a finished dry run has printed, and a finished real run has passed to
\* putRoleMapping, one entry per role of the same mapping: the one the
\* directory answers and the team filter determine
C14_DryRunReportsWhatIsPushed ==
    (pc = "done" /\ exitStatus = 0) =>
        IF args.dry_run
        THEN /\ ReportedMapping = ExpectedMapping
             /\ Len(report) = Cardinality(ExpectedMapping)
        ELSE /\ PushedMapping = ExpectedMapping
             /\ Len(pushLog) = Cardinality(ExpectedMapping)

\* C14 witness: a dry run over a directory whose teams X and Y both gave
\* users printed, under a filter, one role only
C14_Witness ==
    /\ pc = "done"
    /\ args.dry_run
    /\ args.teams # <<>>
    /\ Cardinality(Reconciled) = 2
    /\ Len(report) = 1
    /\ report[1].users # {}

\* no team of the group list had its members fetched: the list did not
\* arrive, was empty, or every member fetch failed
ZeroGroupsReachable ==
    \A n \in DOMAIN teams :
        n \in DOMAIN fetchLog /\ fetchLog[n].status \in {"denied", "error"}

\* the token request of the directory was refused
DirectoryAuthFailed ==
    cxCalls # <<>> /\ cxCalls[1].call = "auth" /\ ~cxCalls[1].ok

\* C15 as claimed: main returns 0 exactly when no unrecoverable error
\* occurred, an authentication failure against the directory or the role
\* store and zero groups being reachable being unrecoverable
C15_ExitStatusTellsUnrecoverable ==
    pc = "done" =>
        (exitStatus = 0 <=> ~(DirectoryAuthFailed \/ rejected \/ ZeroGroupsReachable))

\* C16: once the token request of the directory has failed, main has
\* returned 1 and the token request is the only request of the run: no group
\* list fetch, no member fetch, no loop iteration and so no call to the role
\* store, whose contents are as before the run; nothing is reported
C16_DirectoryAuthFailureEndsRun ==
    DirectoryAuthFailed =>
        /\ pc = "done"
        /\ exitStatus = 1
        /\ Len(cxCalls) = 1
        /\ teams = <<>>
        /\ fetchLog = <<>>
        /\ lastIter = NoIter
        /\ pushLog = <<>>
        /\ esRoles = preRoles
        /\ esMappings = preMappings
        /\ report = <<>>

\* C16 witness: a real run with --create-roles ended on a refused token request
C16_Witness ==
    /\ DirectoryAuthFailed
    /\ pc = "done"
    /\ ~args.dry_run
    /\ args.create_roles

\* C17 as claimed: once the role store has answered 401, the run is over
\* with a non-zero exit status
C17_StoreAuthFailureAborts ==
    rejected => (pc = "done" /\ exitStatus = 1)

\* C18 as claimed: nothing but an authentication failure ends the run with
\* a non-zero status; a failed group-list fetch does not
C18_OnlyAuthFailureAborts ==
    exitStatus = 1 => (DirectoryAuthFailed \/ rejected)

\* C18 amended: main returns 1 only on a failed token request or a failed
\* group-list fetch, and then before any member fetch and any loop
\* iteration; in every other run the second pass reaches every team and,
\* in a real run, the loop passes every role and pushes every role with
\* users, whatever member fetch, conflict, role creation or mapping update
\* failed on the way
C18_OnlyDirectoryFailuresAbort ==
    /\ exitStatus = 1 =>
          /\ pc = "done"
          /\ cxCalls # <<>>
          /\ ~Last(cxCalls).ok
          /\ Last(cxCalls).call \in {"auth", "teams"}
          /\ fetchLog = <<>>
          /\ lastIter = NoIter
    /\ (pc = "done" /\ exitStatus = 0) =>
          /\ Len(fetchLog) = Len(teams)
          /\ ~args.dry_run =>
                /\ k = Len(memberships) + 1
                /\ {pushLog[n].role : n \in DOMAIN pushLog} = RolesToPush
                /\ success_count + fail_count = Len(pushLog)

\* C18 witness: the member fetch of the first team failed, the second team
\* was fetched, its role creation failed, its mapping update failed, and
\* the run ended with status 0
C18_Witness ==
    /\ pc = "done"
    /\ exitStatus = 0
    /\ Len(fetchLog) = 2
    /\ fetchLog[1].status \in {"denied", "error"}
    /\ fetchLog[2].status = "ok"
    /\ lastIter.createRet = "false"
    /\ lastIter.mapRet = "false"
    /\ fail_count = 1

\* C19: every key of the mapping is the last segment of exactly one team
\* record of the group list, and the set under the key is the usernames of
\* that record's member fetch: nothing of another record is in it and
\* nothing of that record is missing from it
C19_OneGroupPerKey ==
    \A X \in Keys(memberships) :
        /\ Cardinality(GroupsNamed(X)) = 1
        /\ \A n \in GroupsNamed(X) :
             /\ n \in DOMAIN fetchLog
             /\ fetchLog[n].status = "ok"
             /\ UsersUnder(memberships, X) = NamesIn(fetchLog[n].users)

\* C19 witness: the returned mapping has the keys X and Y with different
\* user sets, from a group list of the two teams /A/X and /A/Y
C19_Witness ==
    /\ Returned
    /\ Len(teams) = 2
    /\ Keys(memberships) = {sX, sY}
    /\ UsersUnder(memberships, sX) # UsersUnder(memberships, sY)

\* the string settings: the option, the environment variable and the default
\* of each, as the module docstring and --help give them
StrSettings ==
    { [setting |-> "smtp_server", option |-> "smtp_server",
       variable |-> "SMTP_SERVER", default |-> <<"smtp.office365.com">>],
      [setting |-> "email_username", option |-> "email_username",
       variable |-> "EMAIL_USERNAME", default |-> None],
      [setting |-> "email_password", option |-> "email_password",
       variable |-> "EMAIL_PASSWORD", default |-> None],
      [setting |-> "email_from", option |-> "email_from",
       variable |-> "EMAIL_FROM", default |-> None],
      [setting |-> "email_to", option |-> "email_to",
       variable |-> "EMAIL_TO", default |-> None],
      [setting |-> "slack_webhook_url", option |-> "slack_webhook",
       variable |-> "SLACK_WEBHOOK_URL", default |-> None],
      [setting |-> "version_file", option |-> "version_file",
       variable |-> "VERSION_FILE", default |-> <<"sonatype_last_version.txt">>] }

\* a flag variable that is set to true in any letter case
FlagSet(text) == text # None /\ lower(text) = <<"t", "r", "u", "e">>

\* C20 as claimed: in the constructed Config every setting is the
\* command-line value when one is given, whatever the environment holds,
\* else the environment variable when it is set, else the default; a switch
\* given on the command line decides its flag
C20_CommandLineFirst ==
    pc = "configured" =>
        /\ \A st \in StrSettings :
              config[st.setting] =
                  IF cfgArgs[st.option] # None THEN cfgArgs[st.option]
                  ELSE IF environ[st.variable] # None THEN environ[st.variable]
                  ELSE st.default
        /\ config.smtp_port =
              IF cfgArgs.smtp_port # NoPort THEN cfgArgs.smtp_port
              ELSE IF environ.SMTP_PORT # None THEN int(environ.SMTP_PORT).n
              ELSE 587
        /\ config.enable_email =
              IF cfgArgs.enable_email THEN TRUE
              ELSE IF cfgArgs.disable_email THEN FALSE
              ELSE FlagSet(environ.ENABLE_EMAIL)
        /\ config.enable_slack =
              IF cfgArgs.enable_slack THEN TRUE
              ELSE IF cfgArgs.disable_slack THEN FALSE
              ELSE FlagSet(environ.ENABLE_SLACK)
        /\ config.dry_run =
              IF cfgArgs.dry_run THEN TRUE ELSE FlagSet(environ.DRY_RUN)

\* C21 as claimed: a short name is treated as a conflict (reported, its
\* teams skipped) exactly when its teams have more than one distinct full
\* path; teams that all carry one full path are fetched
C21_ConflictIffDistinctPaths ==
    \A X \in SegmentsSeen :
        /\ EntriesFor(RunLines, X) # {} <=> Conflicting(X)
        /\ \A n \in GroupsNamed(X) :
             n \in DOMAIN fetchLog =>
                 (fetchLog[n].status = "skipped" <=> Conflicting(X))

\* the positions of a call in the calls of a loop iteration
CallsAt(calls, names) == {n \in DOMAIN calls : calls[n] \in names}

C23_ErrorLogAppendOnly ==
    [][ /\ Len(errorLog') >= Len(errorLog)
        /\ SubSeq(errorLog', 1, Len(errorLog)) = errorLog
        /\ conflicting_full_names' # conflicting_full_names =>
              Len(errorLog') > Len(errorLog) ]_vars

\* C23 witness: a dry run that detected a conflict ended with the line of an
\* earlier run first in the log and its own report after it
C23_Witness ==
    /\ pc = "done"
    /\ args.dry_run
    /\ conflicting_full_names # {}
    /\ logStart = 1
    /\ errorLog[1] = OldLine
    /\ Len(errorLog) > 1
    /\ EntriesFor(RunLines, sX) # {}


\* ------------------------------------------------------------------ C24
\* the requests of one get_latest_version call met nothing but timeouts
\* and request errors so far
OnlyFailuresSoFar == lastFetch \in {"none", "timeout", "error"}

\* get_latest_version has returned in this run
FetchReturned == pc = "fetched" \/ (pc = "done" /\ attempts > 0)

\* C24: get_latest_version never makes more than MAX_RETRIES + 1 = 4
\* requests; while it is still retrying every request so far timed out or
\* failed, so it stops at the first request that does not; when the last
\* request too timed out or failed it has made exactly 4 requests and
\* returns None; and a call that has started always returns.
C24_FetchTerminates ==
    /\ [](/\ attempts <= MAX_RETRIES + 1
          /\ pc = "fetch" => OnlyFailuresSoFar /\ attempts = retry_count
          /\ FetchReturned /\ lastFetch \in {"timeout", "error"}
               => attempts = MAX_RETRIES + 1 /\ latest_version = None
          /\ FetchReturned /\ lastFetch \in {"ok", "unexpected"}
               => attempts = retry_count + 1)
    /\ (pc = "fetch") ~> (pc = "fetched")

C24_Witness ==
    /\ pc = "fetched"
    /\ attempts = MAX_RETRIES + 1
    /\ retry_count = MAX_RETRIES
    /\ lastFetch = "timeout"
    /\ latest_version = None

\* ------------------------------------------------------------------ C25
\* main met a stored version that differs from the observed one
VersionChanged ==
    /\ pc = "done"
    /\ Truthy(latest_version)
    /\ last_version # None
    /\ last_version # latest_version

\* some channel that was tried answered True
SomeChannelSucceeded == \E n \in DOMAIN notified.rets : notified.rets[n].ret

\* C25: in a run that meets a changed version, the version file is written
\* only when some enabled channel answered True; when every enabled channel
\* answered False the file is as the run found it and the exit status is 1;
\* and the run after such a run, observing the same version and able to read
\* the file, reads the same stored version and calls notify_new_version again.
C25_StoredOnlyAfterNotification ==
    /\ VersionChanged =>
         /\ notified.called /\ notified.rets # <<>>
         /\ (wrote # "none" \/ versionFile # fileAtStart) => SomeChannelSucceeded
         /\ ~SomeChannelSucceeded =>
              versionFile = fileAtStart /\ wrote = "none" /\ exitStatus = 1
    /\ ( /\ pc = "done" /\ run > 1
         /\ prev.notified.called /\ ~prev.notified.success
         /\ latest_version = prev.latest
         /\ last_version # None )
       => last_version = prev.last /\ notified.called

C25_Witness ==
    /\ VersionChanged
    /\ run > 1
    /\ prev.notified.called /\ ~prev.notified.success /\ prev.exit = 1
    /\ latest_version = prev.latest
    /\ Len(prev.notified.rets) = 2
    /\ SomeChannelSucceeded
    /\ versionFile = latest_version
    /\ exitStatus = 0

\* ------------------------------------------------------------------ C26
\* this run observed a version and found no version file
FirstRun == pc = "done" /\ fileAtStart = NoFile /\ Truthy(latest_version)

\* this run follows a first run and observes the version that run observed
AfterFirstRun ==
    /\ pc = "done" /\ run > 1
    /\ prev.fileAtStart = NoFile /\ Truthy(prev.latest)
    /\ latest_version = prev.latest

NothingNotified == ~notified.called /\ sent = <<>>

RolesWithUsers == {n \in DOMAIN memberships : memberships[n].users # {}}

\* C27: when sync_team_memberships is over, the two counters together equal
\* the number of putRoleMapping calls of the run, which is the number of
\* filtered roles with a non-empty member set, and every such role has
\* exactly one putRoleMapping call.
C27_CountersMatchPushes ==
    pc = "done" =>
        /\ success_count + fail_count = Len(pushLog)
        /\ Len(pushLog) = Cardinality(RolesWithUsers)
        /\ success_count = Cardinality({n \in DOMAIN pushLog : pushLog[n].ok})
        /\ \A m \in RolesWithUsers :
             Cardinality({n \in DOMAIN pushLog :
                            pushLog[n].role = memberships[m].name}) = 1

C27_Witness ==
    /\ pc = "done"
    /\ args.teams = <<>>
    /\ Len(memberships) = 2
    /\ Cardinality(RolesWithUsers) = 2
    /\ Len(pushLog) = 2
    /\ success_count = 1
    /\ fail_count = 1

\* ------------------------------------------------------------------ C28
\* the key a team's usernames go under: the full name in the variant
\* without conflict detection, the last segment in the other
KeyOf(n) ==
    IF pc = "naive_loop" THEN teams[n].fullName ELSE short_name(teams[n].fullName)

\* C28: in both variants every key of the mapping get_team_memberships
\* builds and returns holds a non-empty set of non-empty usernames, and is
\* the key of a fetched team whose body had a non-blank username: a team
\* with no members, a failed fetch or only blank usernames adds no key; and
\* every iteration of the sync loop meets a non-empty member set.
C28_KeysHaveUsers ==
    /\ \A n \in DOMAIN memberships :
         /\ memberships[n].users # {}
         /\ "" \notin memberships[n].users
         /\ Absent \notin memberships[n].users
    /\ pc \in {"second_pass", "naive_loop"} =>
         \A key \in Keys(memberships) :
             \E n \in DOMAIN fetchLog :
                 /\ KeyOf(n) = key
                 /\ fetchLog[n].status = "ok"
                 /\ NamesIn(fetchLog[n].users) # {}
    /\ lastIter # NoIter =>
         /\ UsersUnder(memberships, lastIter.role) # {}
         /\ "putRoleMapping" \in Range(lastIter.calls)

\* C28 witness: the variant without conflict detection returned a mapping
\* with one key after an empty team, a failed fetch and a team with users
C28_Witness ==
    /\ NaiveReturned
    /\ Len(teams) = 3
    /\ fetchLog[1].status = "ok" /\ fetchLog[1].users = <<>>
    /\ fetchLog[2].status = "error"
    /\ fetchLog[3].status = "ok" /\ NamesIn(fetchLog[3].users) # {}
    /\ Len(memberships) = 1
    /\ memberships[1].name = teams[3].fullName

\* C28 witness in the variant with conflict detection: a team whose body
\* had only blank usernames left no key, and the run synced the other team
C28_WitnessSync ==
    /\ pc = "done" /\ exitStatus = 0
    /\ Len(teams) = 2
    /\ fetchLog[1].status = "ok" /\ fetchLog[1].users # <<>>
    /\ NamesIn(fetchLog[1].users) = {}
    /\ Len(memberships) = 1
    /\ Len(pushLog) = 1

\* ------------------------------------------------------------------ C29
\* the run before this one met a changed version in a dry run
AfterDryRunChange ==
    /\ run > 1
    /\ prev.dry_run
    /\ Truthy(prev.latest)
    /\ prev.last # None
    /\ prev.last # prev.latest

\* C29: a dry run hands no message to SMTP or the webhook and ends with the
\* version file as it found it; and a real run after a dry run that met a
\* version change, observing the same version and able to read the file,
\* calls notify_new_version.
C29_DryRunChangesNothing ==
    /\ (pc = "done" /\ config.dry_run) =>
          sent = <<>> /\ versionFile = fileAtStart
    /\ ( /\ pc = "done" /\ AfterDryRunChange
         /\ ~config.dry_run /\ validate(config)
         /\ latest_version = prev.latest
         /\ last_version # None )
       => notified.called

\* the part of C29 the code keeps: no run with dry_run set sends a message
C29_DryRunSendsNothing == config.dry_run => sent = <<>>
====
